---- MODULE Spec2Model ----
(***************************************************************************)
(* A model of core/config.py: the environment parsers _bool_env and        *)
(* _int_env, the configuration classes and their registry, and get_config  *)
(* with the directory creation of BaseConfig.ensure_dirs on a shared       *)
(* filesystem.                                                             *)
(*                                                                         *)
(* A Python str is a sequence of one-character strings, None is the empty  *)
(* tuple and a present value v is <<v>>, so that "" and None differ.       *)
(* A Path is the sequence of its components below PROJECT_ROOT.            *)
(***************************************************************************)
EXTENDS Integers, Sequences, FiniteSets, TLC

VARIABLES
    environ,         \* os.environ: variable name -> None or <<value>>
    fs,              \* the filesystem below PROJECT_ROOT: path -> kind of node
    classes,         \* per process: the class objects the import created
    config_by_name,  \* per process: the registry the import created
    pc,              \* per process: where the interpreter stands
    plan,            \* per process: the arguments of the calls of get_config to come
    cur,             \* per process: the locals of the running get_config
    stack,           \* per process: the frames of Path.mkdir in progress
    log,             \* per process: the records handed to the module's logger
    calls,           \* per process: the finished calls of get_config, in order
    probe            \* the last direct call of _bool_env or _int_env

vars == <<environ, fs, classes, config_by_name, pc, plan, cur, stack, log,
          calls, probe>>

(***************************************************************************)
(* Bounds of the model.                                                    *)
(***************************************************************************)
MaxBoolLen == 4      \* longest FLASK_DEBUG-like value given to _bool_env
MaxIntLen  == 3      \* longest value given to _int_env
MaxCalls   == 2      \* calls of get_config one process makes in a row
NumProcs   == 2      \* processes sharing the filesystem

(***************************************************************************)
(* Python values.                                                          *)
(***************************************************************************)
None == <<>>
Some(v) == <<v>>
IsNone(o) == Len(o) = 0
Val(o) == o[1]

\* truth value of an Optional[str]: None and "" are falsy
Truthy(o) == ~IsNone(o) /\ Len(Val(o)) > 0

\* a or b, on Optional[str]
PyOr(a, b) == IF Truthy(a) THEN a ELSE b

UpperLetters == <<"A","B","C","D","E","F","G","H","I","J","K","L","M",
                  "N","O","P","Q","R","S","T","U","V","W","X","Y","Z">>
LowerLetters == <<"a","b","c","d","e","f","g","h","i","j","k","l","m",
                  "n","o","p","q","r","s","t","u","v","w","x","y","z">>

LowerChar(c) ==
    IF \E i \in 1..Len(UpperLetters) : UpperLetters[i] = c
    THEN LowerLetters[CHOOSE i \in 1..Len(UpperLetters) : UpperLetters[i] = c]
    ELSE c

\* str.lower()
Lower(s) == [i \in 1..Len(s) |-> LowerChar(s[i])]

Digits == <<"0","1","2","3","4","5","6","7","8","9">>
IsDigit(c) == \E i \in 1..10 : Digits[i] = c
DigitVal(c) == (CHOOSE i \in 1..10 : Digits[i] = c) - 1

RECURSIVE StrNat(_)
StrNat(n) == IF n < 10 THEN <<Digits[n + 1]>>
             ELSE Append(StrNat(n \div 10), Digits[(n % 10) + 1])

\* str(n) of an int
Str(n) == IF n < 0 THEN <<"-">> \o StrNat(0 - n) ELSE StrNat(n)

IsSpace(c) == c = " "

RECURSIVE LStrip(_)
LStrip(s) == IF Len(s) > 0 /\ IsSpace(s[1]) THEN LStrip(Tail(s)) ELSE s

RECURSIVE RStrip(_)
RStrip(s) == IF Len(s) > 0 /\ IsSpace(s[Len(s)])
             THEN RStrip(SubSeq(s, 1, Len(s) - 1)) ELSE s

\* the digits of a literal: digits, single underscores only between digits
IsDigitPart(d) ==
    /\ Len(d) > 0
    /\ \A i \in 1..Len(d) : IsDigit(d[i]) \/ d[i] = "_"
    /\ IsDigit(d[1]) /\ IsDigit(d[Len(d)])
    /\ \A i \in 1..(Len(d) - 1) : ~(d[i] = "_" /\ d[i + 1] = "_")

RECURSIVE DigitsValue(_)
DigitsValue(d) ==
    IF Len(d) = 0 THEN 0
    ELSE IF d[Len(d)] = "_" THEN DigitsValue(SubSeq(d, 1, Len(d) - 1))
    ELSE 10 * DigitsValue(SubSeq(d, 1, Len(d) - 1)) + DigitVal(d[Len(d)])

\* int(s) of a str: [exc |-> "none", val |-> n] or [exc |-> "ValueError"]
PyInt(s) ==
    LET t == RStrip(LStrip(s))
        signed == Len(t) > 0 /\ t[1] \in {"+", "-"}
        d == IF signed THEN Tail(t) ELSE t
    IN  IF IsDigitPart(d)
        THEN [exc |-> "none",
              val |-> IF signed /\ t[1] = "-" THEN 0 - DigitsValue(d)
                      ELSE DigitsValue(d)]
        ELSE [exc |-> "ValueError", val |-> 0]

\* os.getenv(name) and os.getenv(name, default)
GetEnv(env, name) == env[name]
GetEnvOr(env, name, default) == IF IsNone(env[name]) THEN default ELSE Val(env[name])

(***************************************************************************)
(* _bool_env and _int_env.                                                 *)
(***************************************************************************)
TrueWords == { <<"1">>, <<"t","r","u","e">>, <<"y","e","s">>, <<"o","n">> }

\* a variant that falls back to the default for every unrecognised value
_bool_env_fallback(env, name, default) ==
    LET val == GetEnv(env, name)
    IN  IF IsNone(val) THEN default
        ELSE IF Lower(Val(val)) \in TrueWords THEN TRUE ELSE default

_bool_env(env, name, default) ==
    LET val == GetEnv(env, name)
    IN  IF IsNone(val) THEN default
        ELSE Lower(Val(val)) \in TrueWords

\* a variant whose except clause misses ValueError
IntEnvCatches_typeonly == {"TypeError"}

\* the except clause of _int_env
IntEnvCatches == {"TypeError", "ValueError"}

\* [exc |-> "none", val |-> n], or [exc |-> e] when e leaves the function
_int_env(env, name, default) ==
    LET r == PyInt(GetEnvOr(env, name, Str(default)))
    IN  IF r.exc = "none" THEN r
        ELSE IF r.exc \in IntEnvCatches THEN [exc |-> "none", val |-> default]
        ELSE r

(***************************************************************************)
(* Exceptions.                                                             *)
(***************************************************************************)
OSErrors == {"OSError", "FileNotFoundError", "FileExistsError",
             "NotADirectoryError", "PermissionError"}

\* issubclass(exc, base), for the classes an except clause of the module names
IsSubclass(exc, base) ==
    \/ exc = base
    \/ base = "Exception"
    \/ base = "OSError" /\ exc \in OSErrors

(***************************************************************************)
(* Paths and the filesystem.  A node is "absent", a "file", a "dir", or a  *)
(* "rodir": a directory in which this user may not create entries.         *)
(***************************************************************************)
PROJECT_ROOT == <<>>

\* Path / name
Join(path, name) == Append(path, name)

\* Path.parent; the parent of the anchor is the anchor
Parent(path) == IF Len(path) = 0 THEN path ELSE SubSeq(path, 1, Len(path) - 1)

Paths == { PROJECT_ROOT, <<"data">>, <<"data", "uploads">>,
           <<"ml">>, <<"ml", "models">> }

\* Path.is_dir()
IsDir(f, path) == f[path] \in {"dir", "rodir"}

\* os.mkdir(path): [exc |-> "none", fs |-> the filesystem after it] or the OSError
OsMkdir(f, path) ==
    LET parent == Parent(path)
    IN  IF f[parent] = "absent" THEN [exc |-> "FileNotFoundError", fs |-> f]
        ELSE IF f[parent] = "file" THEN [exc |-> "NotADirectoryError", fs |-> f]
        ELSE IF f[path] # "absent" THEN [exc |-> "FileExistsError", fs |-> f]
        ELSE IF f[parent] = "rodir" THEN [exc |-> "PermissionError", fs |-> f]
        ELSE [exc |-> "none", fs |-> [f EXCEPT ![path] = "dir"]]

(***************************************************************************)
(* The classes and the registry, as the import of the module builds them.  *)
(* MODEL_PATH, CURRENCY, ALLOWED_EXTENSIONS and the database URIs are      *)
(* plain values that get_config never reads; they are left out.            *)
(***************************************************************************)
S_default     == <<"d","e","f","a","u","l","t">>
S_development == <<"d","e","v","e","l","o","p","m","e","n","t">>
S_production  == <<"p","r","o","d","u","c","t","i","o","n">>
S_devkey      == <<"d","e","v","-","k","e","y","-","c","h","a","n","g","e",
                   "-","i","n","-","p","r","o","d">>

MaxContentDefault == 10 * 1024 * 1024

BaseDict(env) ==
    [ BASE_DIR                       |-> PROJECT_ROOT,
      DATA_DIR                       |-> Join(PROJECT_ROOT, "data"),
      MODEL_DIR                      |-> Join(Join(PROJECT_ROOT, "ml"), "models"),
      UPLOAD_FOLDER                  |-> Join(Join(PROJECT_ROOT, "data"), "uploads"),
      DEBUG                          |-> _bool_env(env, "FLASK_DEBUG", FALSE),
      MAX_CONTENT_LENGTH             |-> _int_env(env, "MAX_CONTENT_LENGTH",
                                                  MaxContentDefault).val,
      SECRET_KEY                     |-> GetEnvOr(env, "SECRET_KEY", S_devkey),
      SESSION_COOKIE_SECURE          |-> TRUE,
      REMEMBER_COOKIE_SECURE         |-> TRUE,
      SQLALCHEMY_TRACK_MODIFICATIONS |-> FALSE,
      ensure_dirs                    |-> "classmethod" ]

\* a variant that leaves the cookie flags to the base class
DevelopmentDict_nocookies == [ DEBUG |-> TRUE ]

\* a variant that leaves DEBUG to the base class
DevelopmentDict_nodebug ==
    [ SESSION_COOKIE_SECURE |-> FALSE, REMEMBER_COOKIE_SECURE |-> FALSE ]

DevelopmentDict ==
    [ DEBUG                  |-> TRUE,
      SESSION_COOKIE_SECURE  |-> FALSE,
      REMEMBER_COOKIE_SECURE |-> FALSE ]

ProductionDict ==
    [ DEBUG                    |-> FALSE,
      SESSION_COOKIE_SECURE    |-> TRUE,
      REMEMBER_COOKIE_SECURE   |-> TRUE,
      ensure_production_safety |-> "classmethod" ]

\* class name -> its base (or "object") and its own attributes
ClassTable(env) ==
    [ BaseConfig        |-> [base |-> "object", dict |-> BaseDict(env)],
      DevelopmentConfig |-> [base |-> "BaseConfig", dict |-> DevelopmentDict],
      ProductionConfig  |-> [base |-> "BaseConfig", dict |-> ProductionDict] ]

RECURSIVE HasAttr(_, _, _)
HasAttr(tbl, c, a) ==
    IF c = "object" THEN FALSE
    ELSE IF a \in DOMAIN tbl[c].dict THEN TRUE
    ELSE HasAttr(tbl, tbl[c].base, a)

\* cls.a, looked up along the bases
RECURSIVE GetAttr(_, _, _)
GetAttr(tbl, c, a) ==
    IF a \in DOMAIN tbl[c].dict THEN tbl[c].dict[a]
    ELSE GetAttr(tbl, tbl[c].base, a)

Registry ==
    (S_default :> "DevelopmentConfig") @@
    (S_development :> "DevelopmentConfig") @@
    (S_production :> "ProductionConfig")

\* a variant whose fallback is the production entry
RegistryGet_prod(reg, key) ==
    IF key \in DOMAIN reg THEN reg[key] ELSE reg[S_production]

\* config_by_name.get(key, config_by_name["default"])
RegistryGet(reg, key) ==
    IF key \in DOMAIN reg THEN reg[key] ELSE reg[S_default]

\* a variant that asks the environment first
ChooseName_envfirst(name, env) ==
    [ chosen   |-> Val(PyOr(GetEnv(env, "FLASK_ENV"), PyOr(name, Some(S_default)))),
      env_read |-> TRUE ]

\* name or os.getenv("FLASK_ENV") or "default": the str chosen, and whether
\* the short-circuit evaluation got as far as reading the environment
ChooseName(name, env) ==
    IF Truthy(name) THEN [chosen |-> Val(name), env_read |-> FALSE]
    ELSE [ chosen   |-> Val(PyOr(GetEnv(env, "FLASK_ENV"), Some(S_default))),
           env_read |-> TRUE ]

(***************************************************************************)
(* One interpreter process: import of the module, then get_config.         *)
(* Each action holds at most one system call on the shared filesystem.     *)
(***************************************************************************)
Procs == DOMAIN pc

\* the settings whose values a caller of get_config reads off the class
Settings == {"DEBUG", "SESSION_COOKIE_SECURE", "REMEMBER_COOKIE_SECURE",
             "SECRET_KEY", "MAX_CONTENT_LENGTH"}

NoCall == [name |-> None, key |-> <<>>, cfg |-> "object", env_read |-> FALSE,
           todo |-> {}, tried |-> {}, logged |-> {}]

\* the module is imported: lines 10-92
Import(p) ==
    /\ pc[p] = "import"
    /\ classes' = [classes EXCEPT ![p] = ClassTable(environ)]
    /\ config_by_name' = [config_by_name EXCEPT ![p] = Registry]
    /\ pc' = [pc EXCEPT ![p] =
                IF _int_env(environ, "MAX_CONTENT_LENGTH", MaxContentDefault).exc = "none"
                THEN "ready" ELSE "import_error"]
    /\ UNCHANGED <<environ, fs, plan, cur, stack, log, calls, probe>>

\* the directories ensure_dirs walks over: a set, so in no fixed order
DirsOf(tbl, cfg) ==
    { GetAttr(tbl, cfg, "MODEL_DIR"), GetAttr(tbl, cfg, "DATA_DIR"),
      GetAttr(tbl, cfg, "UPLOAD_FOLDER") }

\* get_config(name) is entered: lines 97-99, up to the loop of ensure_dirs
Call(p) ==
    /\ pc[p] = "ready"
    /\ Len(plan[p]) > 0
    /\ plan' = [plan EXCEPT ![p] = Tail(@)]
    /\ LET name == Head(plan[p])
           src == ChooseName(name, environ)
           key == Lower(src.chosen)
           cfg == RegistryGet(config_by_name[p], key)
       IN  cur' = [cur EXCEPT ![p] =
                     [name |-> name, key |-> key, cfg |-> cfg,
                      env_read |-> src.env_read,
                      todo |-> DirsOf(classes[p], cfg),
                      tried |-> {}, logged |-> {}]]
    /\ pc' = [pc EXCEPT ![p] = "ensure_dirs"]
    /\ UNCHANGED <<environ, fs, classes, config_by_name, stack, log, calls, probe>>

\* a variant of the mkdir call without parents=True
MkdirParents_off == FALSE

\* p.mkdir(parents=True, exist_ok=True), line 61
MkdirParents == TRUE
MkdirExistOk == TRUE

Frame(path, parents, exist_ok) ==
    [path |-> path, parents |-> parents, exist_ok |-> exist_ok,
     at |-> "os_mkdir", exc |-> "none"]

\* the loop of ensure_dirs takes its next directory: lines 59-61
LoopNext(p) ==
    /\ pc[p] = "ensure_dirs"
    /\ \E d \in cur[p].todo :
          /\ cur' = [cur EXCEPT ![p].todo = @ \ {d}, ![p].tried = @ \cup {d}]
          /\ stack' = [stack EXCEPT ![p] = <<Frame(d, MkdirParents, MkdirExistOk)>>]
    /\ pc' = [pc EXCEPT ![p] = "mkdir"]
    /\ UNCHANGED <<environ, fs, classes, config_by_name, plan, log, calls, probe>>

Top(p) == stack[p][Len(stack[p])]
Below(p) == SubSeq(stack[p], 1, Len(stack[p]) - 1)

\* the record of a call that ended, by return or by an exception
CallRecord(p, c, exc, safety, logged) ==
    [ name |-> c.name, key |-> c.key, ret |-> c.cfg, raised |-> exc,
      env_read |-> c.env_read, tried |-> c.tried, safety_ran |-> safety,
      logged |-> logged, fs |-> fs',
      registry |-> config_by_name[p],
      values |-> [a \in Settings |-> GetAttr(classes[p], c.cfg, a)] ]

\* a variant of the handler that catches only a directory already there
EnsureDirsCatches_exists(exc) == IsSubclass(exc, "FileExistsError")

\* except Exception, line 62
EnsureDirsCatches(exc) == IsSubclass(exc, "Exception")

\* a variant with the try around the loop: the first failure ends the walk
TodoAfterFailure_stop(todo) == {}

\* the try is inside the loop, so a failure leaves the rest to be walked
TodoAfterFailure(todo) == todo

DebugRecord(path, exc) ==
    [level |-> "DEBUG", msg |-> "Failed to create directory", path |-> path, exc |-> exc]

\* the outermost mkdir returned: back to the loop
\* an inner mkdir (of a parent) returned: self.mkdir(mode, parents=False, exist_ok=exist_ok)
MkdirReturns(p) ==
    /\ stack' = [stack EXCEPT ![p] =
                   IF Len(Below(p)) = 0 THEN <<>>
                   ELSE LET g == Below(p)[Len(Below(p))]
                        IN  [Below(p) EXCEPT ![Len(Below(p))] =
                                Frame(g.path, FALSE, g.exist_ok)]]
    /\ pc' = [pc EXCEPT ![p] = IF Len(Below(p)) = 0 THEN "ensure_dirs" ELSE "mkdir"]
    /\ UNCHANGED <<cur, log, calls>>

\* exc leaves Path.mkdir: no frame of mkdir handles it; ensure_dirs logs it
\* (lines 62-63) or, were it no Exception, it would leave get_config
MkdirRaises(p, exc) ==
    /\ stack' = [stack EXCEPT ![p] = <<>>]
    /\ IF EnsureDirsCatches(exc)
       THEN LET rec == DebugRecord(stack[p][1].path, exc)
            IN  /\ log' = [log EXCEPT ![p] = @ \cup {rec}]
                /\ cur' = [cur EXCEPT ![p].logged = @ \cup {rec},
                                      ![p].todo = TodoAfterFailure(@)]
                /\ pc' = [pc EXCEPT ![p] = "ensure_dirs"]
                /\ UNCHANGED calls
       ELSE /\ calls' = [calls EXCEPT ![p] =
                           Append(@, CallRecord(p, cur[p], exc, FALSE, cur[p].logged))]
            /\ cur' = [cur EXCEPT ![p] = NoCall]
            /\ pc' = [pc EXCEPT ![p] = "ready"]
            /\ UNCHANGED log

\* os.mkdir(self, mode) inside Path.mkdir, and the except clause it lands in
OsMkdirCall(p) ==
    /\ pc[p] = "mkdir"
    /\ Top(p).at = "os_mkdir"
    /\ LET f == Top(p)
           r == OsMkdir(fs, f.path)
       IN  /\ fs' = r.fs
           /\ IF r.exc = "none" THEN MkdirReturns(p)
              ELSE IF IsSubclass(r.exc, "FileNotFoundError")
              THEN IF ~f.parents \/ Parent(f.path) = f.path
                   THEN MkdirRaises(p, r.exc)
                   ELSE /\ stack' = [stack EXCEPT ![p] =
                               Append([@ EXCEPT ![Len(@)].at = "in_parent"],
                                      Frame(Parent(f.path), TRUE, TRUE))]
                        /\ UNCHANGED <<pc, cur, log, calls>>
              ELSE /\ stack' = [stack EXCEPT ![p] =
                          [@ EXCEPT ![Len(@)].at = "is_dir", ![Len(@)].exc = r.exc]]
                   /\ UNCHANGED <<pc, cur, log, calls>>
    /\ UNCHANGED <<environ, classes, config_by_name, plan, probe>>

\* except OSError: if not exist_ok or not self.is_dir(): raise
IsDirCall(p) ==
    /\ pc[p] = "mkdir"
    /\ Top(p).at = "is_dir"
    /\ UNCHANGED <<environ, fs, classes, config_by_name, plan, probe>>
    /\ IF ~Top(p).exist_ok \/ ~IsDir(fs, Top(p).path)
       THEN MkdirRaises(p, Top(p).exc)
       ELSE MkdirReturns(p)

ErrorRecord ==
    [level |-> "ERROR", msg |-> "SECRET_KEY is using the development default",
     path |-> <<>>, exc |-> "none"]

\* a variant that compares the argument instead of the lower-cased key
SafetyApplies_name(c) == c.name = Some(S_production)

\* if key == "production", line 100
SafetyApplies(c) == c.key = S_production

\* the raise of line 85 is commented out
SafetyRaises == FALSE

\* ensure_dirs is through: lines 100-106
Finish(p) ==
    /\ pc[p] = "ensure_dirs"
    /\ cur[p].todo = {}
    /\ UNCHANGED <<environ, fs, classes, config_by_name, plan, stack, probe>>
    /\ LET c == cur[p]
           tbl == classes[p]
           called == SafetyApplies(c) /\ HasAttr(tbl, c.cfg, "ensure_production_safety")
           insecure == called /\ GetAttr(tbl, c.cfg, "SECRET_KEY") = S_devkey
           new == IF insecure THEN {ErrorRecord} ELSE {}
           exc == IF insecure /\ SafetyRaises THEN "RuntimeError" ELSE "none"
       IN  /\ log' = [log EXCEPT ![p] = @ \cup new]
           /\ calls' = [calls EXCEPT ![p] =
                          Append(@, CallRecord(p, c, exc, called, c.logged \cup new))]
    /\ cur' = [cur EXCEPT ![p] = NoCall]
    /\ pc' = [pc EXCEPT ![p] = "ready"]

(***************************************************************************)
(* Direct calls of the two parsers, with any default.                      *)
(***************************************************************************)
NoProbe == [fn |-> "none", default |-> FALSE, exc |-> "none", val |-> FALSE]

ProbeBool(d) ==
    /\ probe' = [fn |-> "_bool_env", default |-> d, exc |-> "none",
                 val |-> _bool_env(environ, "FLASK_DEBUG", d)]
    /\ UNCHANGED <<environ, fs, classes, config_by_name, pc, plan, cur, stack,
                   log, calls>>

ProbeInt(d) ==
    /\ LET r == _int_env(environ, "MAX_CONTENT_LENGTH", d)
       IN  probe' = [fn |-> "_int_env", default |-> d, exc |-> r.exc, val |-> r.val]
    /\ UNCHANGED <<environ, fs, classes, config_by_name, pc, plan, cur, stack,
                   log, calls>>

(***************************************************************************)
(* Inputs: values of the environment, arguments, filesystems.              *)
(***************************************************************************)
\* all str over the alphabet of at most n characters
StrUpTo(alphabet, n) == UNION { [1..k -> alphabet] : k \in 0..n }

Optional(S) == {None} \cup { Some(s) : s \in S }

BoolAlphabet == {"1", "0", "t", "T", "r", "u", "e", "E", "y", "s", "o", "N"}
BoolValues == Optional(StrUpTo(BoolAlphabet, MaxBoolLen))

IntAlphabet == {"0", "1", "7", "-", "+", " ", "_", "x"}
IntValues == Optional(StrUpTo(IntAlphabet, MaxIntLen))
IntDefaults == {0, 7, 0 - 12, MaxContentDefault}

EnvNames == {"FLASK_ENV", "FLASK_DEBUG", "MAX_CONTENT_LENGTH", "SECRET_KEY"}
EmptyEnv == [n \in EnvNames |-> None]

S_PRODUCTION  == <<"P","R","O","D","U","C","T","I","O","N">>
S_Production  == <<"P","r","o","d","u","c","t","i","o","n">>
S_Development == <<"D","e","v","e","l","o","p","m","e","n","t">>
S_staging     == <<"s","t","a","g","i","n","g">>
S_testing     == <<"t","e","s","t","i","n","g">>
S_secret      == <<"s","3","c","r","e","t">>

NameArgs == Optional({ <<>>, S_default, S_production, S_PRODUCTION, S_Production,
                       S_development, S_staging })

Environments ==
    { [ FLASK_ENV          |-> e,    FLASK_DEBUG |-> d,
        MAX_CONTENT_LENGTH |-> None, SECRET_KEY  |-> k ] :
        e \in Optional({ <<>>, S_production, S_Development, S_testing }),
        d \in Optional({ <<"1">> }),
        k \in Optional({ S_devkey, S_secret }) }

NodeKinds == {"absent", "file", "dir", "rodir"}

\* PROJECT_ROOT holds this module's package, so it is a directory; a node
\* lies in a directory; what lies below the leaves has no part here
Filesystems ==
    { f \in [Paths -> NodeKinds] :
        /\ IsDir(f, PROJECT_ROOT)
        /\ \A q \in Paths \ {PROJECT_ROOT} :
              /\ f[q] # "absent" => IsDir(f, Parent(q))
              /\ Len(q) = 2 => f[q] # "rodir" }

Pristine == [q \in Paths |-> IF q = PROJECT_ROOT THEN "dir" ELSE "absent"]

SeqsOfLen(S, n) == [1..n -> S]

InitWith(P, envs, fss, plans) ==
    /\ environ \in envs
    /\ fs \in fss
    /\ plan \in [P -> plans]
    /\ classes = [p \in P |-> <<>>]
    /\ config_by_name = [p \in P |-> <<>>]
    /\ pc = [p \in P |-> "import"]
    /\ cur = [p \in P |-> NoCall]
    /\ stack = [p \in P |-> <<>>]
    /\ log = [p \in P |-> {}]
    /\ calls = [p \in P |-> <<>>]
    /\ probe = NoProbe

\* one process, every environment and argument, a fresh tree
Init == InitWith({1}, Environments, {Pristine}, SeqsOfLen(NameArgs, MaxCalls))

Next ==
    \/ \E p \in Procs : Import(p)
    \/ \E p \in Procs : Call(p)
    \/ \E p \in Procs : LoopNext(p)
    \/ \E p \in Procs : OsMkdirCall(p)
    \/ \E p \in Procs : IsDirCall(p)
    \/ \E p \in Procs : Finish(p)

Spec == Init /\ [][Next]_vars

\* one process, every filesystem
DirArgs == Optional({ S_production, S_staging })
DirEnvironments ==
    { [EmptyEnv EXCEPT !["FLASK_ENV"] = e, !["MAX_CONTENT_LENGTH"] = m] :
        e \in Optional({ S_production }),
        m \in Optional({ <<"t","e","n">> }) }

InitDirs == InitWith({1}, DirEnvironments, Filesystems, SeqsOfLen(DirArgs, MaxCalls))

SpecDirs == InitDirs /\ [][Next]_vars

\* several processes, each calling get_config() once, on a tree in which
\* files may stand in the way
InitProcs ==
    InitWith(1..NumProcs, {EmptyEnv},
             { f \in Filesystems : \A q \in Paths : f[q] # "rodir" },
             {<<None>>})

SpecProcs == InitProcs /\ [][Next]_vars

InitBool ==
    InitWith({}, { [EmptyEnv EXCEPT !["FLASK_DEBUG"] = v] : v \in BoolValues },
             {Pristine}, {<<>>})

NextBool == \E d \in BOOLEAN : ProbeBool(d)

SpecBool == InitBool /\ [][NextBool]_vars

InitInt ==
    InitWith({}, { [EmptyEnv EXCEPT !["MAX_CONTENT_LENGTH"] = v] : v \in IntValues },
             {Pristine}, {<<>>})

NextInt == \E d \in IntDefaults : ProbeInt(d)

SpecInt == InitInt /\ [][NextInt]_vars

(***************************************************************************)
(* Properties.                                                             *)
(***************************************************************************)
\* the same letter, in either case
SameLetter(a, b) ==
    \/ a = b
    \/ \E k \in 1..Len(UpperLetters) : {a, b} = {UpperLetters[k], LowerLetters[k]}

EqualsIgnoringCase(s, w) ==
    /\ Len(s) = Len(w)
    /\ \A i \in 1..Len(s) : SameLetter(s[i], w[i])

IsTrueWord(s) ==
    \/ EqualsIgnoringCase(s, <<"1">>)
    \/ EqualsIgnoringCase(s, <<"t","r","u","e">>)
    \/ EqualsIgnoringCase(s, <<"y","e","s">>)
    \/ EqualsIgnoringCase(s, <<"o","n">>)

\* C3, as stated: _bool_env gives True for a value that is 1, true, yes or
\* on in any case, and the supplied default for every other value and for
\* an unset variable.
C3_OtherValuesGiveDefault ==
    probe.fn = "_bool_env" =>
        LET v == environ["FLASK_DEBUG"]
        IN  IF ~IsNone(v) /\ IsTrueWord(Val(v)) THEN probe.val = TRUE
            ELSE probe.val = probe.default

\* C3, amended: _bool_env gives True for a value that is 1, true, yes or on
\* in any case, False for every other value whatever the default is, and
\* the supplied default only for an unset variable.
C3_BoolEnv ==
    probe.fn = "_bool_env" =>
        LET v == environ["FLASK_DEBUG"]
        IN  /\ probe.exc = "none"
            /\ IsNone(v) => probe.val = probe.default
            /\ ~IsNone(v) /\ IsTrueWord(Val(v)) => probe.val = TRUE
            /\ ~IsNone(v) /\ ~IsTrueWord(Val(v)) => probe.val = FALSE

C3_Witness ==
    /\ probe.fn = "_bool_env"
    /\ probe.default = TRUE
    /\ environ["FLASK_DEBUG"] = Some(<<"0">>)
    /\ probe.val = FALSE

\* the numbers whose decimal form fits the values tried
SmallInts == (0 - 77)..177

\* C4: _int_env never raises; it returns the supplied default when the
\* variable is unset or its value is no integer literal (any value with a
\* letter in it, for one), and the integer when the value is one: str(n)
\* is read back as n.
C4_IntEnv ==
    probe.fn = "_int_env" =>
        LET v == environ["MAX_CONTENT_LENGTH"]
        IN  /\ probe.exc = "none"
            /\ IsNone(v) => probe.val = probe.default
            /\ ~IsNone(v) /\ (\E i \in 1..Len(Val(v)) : Val(v)[i] = "x")
                  => probe.val = probe.default
            /\ ~IsNone(v) /\ PyInt(Val(v)).exc # "none" => probe.val = probe.default
            /\ ~IsNone(v) /\ PyInt(Val(v)).exc = "none" => probe.val = PyInt(Val(v)).val
            /\ \A n \in SmallInts : v = Some(Str(n)) => probe.val = n

C4_Witness ==
    /\ probe.fn = "_int_env"
    /\ environ["MAX_CONTENT_LENGTH"] = Some(<<"1", "x">>)
    /\ probe.default = 0 - 12
    /\ probe.val = 0 - 12
    /\ probe.exc = "none"

\* the finished calls of get_config
CallIds == { <<p, i>> \in Procs \X (1..(MaxCalls + 1)) : i <= Len(calls[p]) }
CallAt(id) == calls[id[1]][id[2]]

IsKnownName(s) ==
    \/ EqualsIgnoringCase(s, S_default)
    \/ EqualsIgnoringCase(s, S_development)
    \/ EqualsIgnoringCase(s, S_production)

\* what a call with this argument returns like a call of get_config("default")
LikeDefault(id) ==
    /\ CallAt(id).raised = "none"
    /\ CallAt(id).ret = "DevelopmentConfig"
    /\ \A other \in CallIds :
          CallAt(other).name = Some(S_default) =>
              /\ CallAt(other).ret = CallAt(id).ret
              /\ CallAt(other).values = CallAt(id).values

\* C1, as stated: for every name that, lower-cased, is no key of
\* config_by_name, get_config(name) raises nothing and returns the profile
\* get_config("default") returns.
C1_EveryUnknownNameIsDefault ==
    \A id \in CallIds :
        ~IsNone(CallAt(id).name) /\ ~IsKnownName(Val(CallAt(id).name))
            => LikeDefault(id)

\* C1, amended: for every non-empty name that, lower-cased, is no key of
\* config_by_name, get_config(name) raises nothing and returns the profile
\* get_config("default") returns.
C1_UnknownNameIsDefault ==
    \A id \in CallIds :
        Truthy(CallAt(id).name) /\ ~IsKnownName(Val(CallAt(id).name))
            => LikeDefault(id)

C1_Witness ==
    \E id \in CallIds, other \in CallIds :
        /\ CallAt(id).name = Some(S_staging)
        /\ CallAt(other).name = Some(S_default)
        /\ environ["FLASK_ENV"] = Some(S_production)
        /\ CallAt(id).ret = "DevelopmentConfig"

\* the str the priority order picks: the argument, else FLASK_ENV, else default
PickedName(name) ==
    IF ~IsNone(name) /\ Len(Val(name)) > 0 THEN Val(name)
    ELSE IF ~IsNone(environ["FLASK_ENV"]) /\ Len(Val(environ["FLASK_ENV"])) > 0
         THEN Val(environ["FLASK_ENV"])
    ELSE S_default

\* C2: get_config looks up the argument when it is given and non-empty,
\* else FLASK_ENV when that is set and non-empty, else "default"; it reads
\* FLASK_ENV only when no argument is given; and the key is the picked name
\* in lower case, so that any spelling of production selects
\* ProductionConfig and any spelling of development or default selects
\* DevelopmentConfig.
C2_KeyPriority ==
    \A id \in CallIds :
        LET r == CallAt(id)
            picked == PickedName(r.name)
        IN  /\ r.env_read = (IsNone(r.name) \/ Len(Val(r.name)) = 0)
            /\ EqualsIgnoringCase(r.key, picked)
            /\ \A i \in 1..Len(r.key) :
                  \A k \in 1..Len(UpperLetters) : r.key[i] # UpperLetters[k]
            /\ EqualsIgnoringCase(picked, S_production) => r.ret = "ProductionConfig"
            /\ EqualsIgnoringCase(picked, S_development) => r.ret = "DevelopmentConfig"
            /\ EqualsIgnoringCase(picked, S_default) => r.ret = "DevelopmentConfig"

C2_Witness ==
    \E id \in CallIds :
        /\ CallAt(id).name = Some(S_PRODUCTION)
        /\ environ["FLASK_ENV"] = Some(S_Development)
        /\ CallAt(id).ret = "ProductionConfig"
        /\ ~CallAt(id).env_read

\* C5: the profile get_config("production") returns has both secure-cookie
\* flags True and the one get_config("development") returns has both
\* False, in every environment.
C5_CookieFlags ==
    \A id \in CallIds :
        LET r == CallAt(id)
        IN  /\ r.name = Some(S_production) =>
                  /\ r.raised = "none"
                  /\ r.values["SESSION_COOKIE_SECURE"] = TRUE
                  /\ r.values["REMEMBER_COOKIE_SECURE"] = TRUE
            /\ r.name = Some(S_development) =>
                  /\ r.raised = "none"
                  /\ r.values["SESSION_COOKIE_SECURE"] = FALSE
                  /\ r.values["REMEMBER_COOKIE_SECURE"] = FALSE

C5_Witness ==
    \E id \in CallIds, other \in CallIds :
        /\ CallAt(id).name = Some(S_development)
        /\ CallAt(id).values["SESSION_COOKIE_SECURE"] = FALSE
        /\ CallAt(other).name = Some(S_production)
        /\ CallAt(other).values["REMEMBER_COOKIE_SECURE"] = TRUE
        /\ environ["FLASK_ENV"] = Some(S_production)

\* C9: the production safety check runs exactly when the profile resolved
\* is ProductionConfig; when it runs with SECRET_KEY equal to
\* "dev-key-change-in-prod" the message is logged; and the call raises
\* nothing and returns ProductionConfig all the same.
C9_ProductionSafety ==
    \A id \in CallIds :
        LET r == CallAt(id)
        IN  /\ r.safety_ran <=> r.ret = "ProductionConfig"
            /\ r.safety_ran /\ r.values["SECRET_KEY"] = S_devkey
                  => ErrorRecord \in r.logged /\ ErrorRecord \in log[id[1]]
            /\ r.safety_ran /\ r.values["SECRET_KEY"] # S_devkey
                  => ErrorRecord \notin r.logged
            /\ r.ret = "ProductionConfig" => r.raised = "none"

C9_Witness ==
    \E id \in CallIds :
        /\ CallAt(id).name = None
        /\ environ["FLASK_ENV"] = Some(S_production)
        /\ environ["SECRET_KEY"] = None
        /\ CallAt(id).ret = "ProductionConfig"
        /\ CallAt(id).safety_ran
        /\ ErrorRecord \in CallAt(id).logged

\* C10: with FLASK_ENV unset get_config(None) returns DevelopmentConfig
\* with DEBUG True; the DEBUG of the profile returned is True for
\* DevelopmentConfig and False for ProductionConfig whatever FLASK_DEBUG
\* is, and FLASK_DEBUG shows in BaseConfig.DEBUG alone.
C10_DebugByProfile ==
    /\ \A id \in CallIds :
          LET r == CallAt(id)
          IN  /\ IsNone(environ["FLASK_ENV"]) /\ IsNone(r.name) =>
                    r.ret = "DevelopmentConfig" /\ r.values["DEBUG"] = TRUE
              /\ r.ret = "DevelopmentConfig" => r.values["DEBUG"] = TRUE
              /\ r.ret = "ProductionConfig" => r.values["DEBUG"] = FALSE
              /\ r.ret \in {"DevelopmentConfig", "ProductionConfig"}
    /\ \A p \in Procs :
          pc[p] # "import" =>
              GetAttr(classes[p], "BaseConfig", "DEBUG")
                  = (environ["FLASK_DEBUG"] = Some(<<"1">>))

C10_Witness ==
    \E id \in CallIds :
        /\ IsNone(environ["FLASK_ENV"])
        /\ IsNone(environ["FLASK_DEBUG"])
        /\ IsNone(CallAt(id).name)
        /\ CallAt(id).ret = "DevelopmentConfig"
        /\ CallAt(id).values["DEBUG"] = TRUE

\* the three directories get_config is to leave behind
RequiredDirs == { <<"ml", "models">>, <<"data">>, <<"data", "uploads">> }

FailedDirs(r) == { rec.path : rec \in { x \in r.logged : x.level = "DEBUG" } }

\* C6: of two successive calls of get_config with the same name, the second
\* raises nothing although the directories may exist by then, returns the
\* same profile with the same setting values, and leaves the filesystem
\* and config_by_name as the first call left them.
C6_Idempotent ==
    \A id \in CallIds, next \in CallIds :
        /\ next[1] = id[1]
        /\ next[2] = id[2] + 1
        /\ CallAt(next).name = CallAt(id).name
        => /\ CallAt(next).raised = "none"
           /\ CallAt(next).ret = CallAt(id).ret
           /\ CallAt(next).values = CallAt(id).values
           /\ CallAt(next).fs = CallAt(id).fs
           /\ CallAt(next).registry = CallAt(id).registry
           /\ CallAt(next).registry = Registry

C6_Witness ==
    \E id \in CallIds, next \in CallIds :
        /\ next[1] = id[1]
        /\ next[2] = id[2] + 1
        /\ CallAt(next).name = Some(S_production)
        /\ CallAt(id).name = Some(S_production)
        /\ \A d \in RequiredDirs : IsDir(CallAt(id).fs, d)
        /\ CallAt(next).raised = "none"
        /\ CallAt(next).fs = CallAt(id).fs

\* the profile the arguments and environments of SpecDirs select
DirsProfile(name) ==
    IF name = Some(S_production)
       \/ (IsNone(name) /\ environ["FLASK_ENV"] = Some(S_production))
    THEN "ProductionConfig" ELSE "DevelopmentConfig"

\* C7: get_config tries to create each of MODEL_DIR, DATA_DIR and
\* UPLOAD_FOLDER; a directory that is not there when it returns had its
\* failure logged, the others were still tried, nothing reaches the
\* caller, and the profile returned is the one the name selects; with no
\* failure all three directories exist when it returns.
C7_BestEffortDirs ==
    \A id \in CallIds :
        LET r == CallAt(id)
        IN  /\ r.raised = "none"
            /\ r.tried = RequiredDirs
            /\ \A d \in RequiredDirs : IsDir(r.fs, d) \/ d \in FailedDirs(r)
            /\ FailedDirs(r) = {} => \A d \in RequiredDirs : IsDir(r.fs, d)
            /\ r.logged \subseteq log[id[1]]
            /\ r.ret = DirsProfile(r.name)

C7_Witness ==
    \E id \in CallIds :
        /\ FailedDirs(CallAt(id)) = { <<"data">>, <<"data", "uploads">> }
        /\ CallAt(id).fs[<<"data">>] = "file"
        /\ IsDir(CallAt(id).fs, <<"ml", "models">>)
        /\ CallAt(id).raised = "none"
        /\ CallAt(id).ret = "ProductionConfig"

AllReturned == \A p \in Procs : pc[p] = "ready" /\ Len(plan[p]) = 0

\* C8: however the processes' system calls interleave, no call of
\* get_config raises and each returns its profile; where no file stands in
\* the way no creation fails, pre-existence included, and once all calls
\* have returned all three directories exist.
C8_ConcurrentSafe ==
    /\ \A id \in CallIds :
          CallAt(id).raised = "none" /\ CallAt(id).ret = "DevelopmentConfig"
    /\ \A p \in Procs : pc[p] \notin {"import_error"}
    /\ (\A q \in Paths : fs[q] # "file") =>
          /\ \A p \in Procs : log[p] = {}
          /\ AllReturned => \A d \in RequiredDirs : IsDir(fs, d)

\* a process that found ml missing meets it again once another process
\* has created it
C8_Witness ==
    \E p \in Procs :
        /\ pc[p] = "mkdir"
        /\ Len(stack[p]) = 2
        /\ stack[p][1].path = <<"ml", "models">>
        /\ stack[p][2].at = "is_dir"
        /\ stack[p][2].exc = "FileExistsError"

====
